---- MODULE Spec2Model ----
(***************************************************************************)
(* State-machine model of the LIVE_DELIVERY_API air-quality ETL pipeline:  *)
(* extract.py (fetch with retry, raw store), transform.py (flatten, derive *)
(* features, stage a CSV), load.py (batched insert with retry) and         *)
(* run_pipeline.py (the four-stage orchestrator).                          *)
(***************************************************************************)
EXTENDS Integers, Sequences, FiniteSets, TLC

(***************************************************************************)
(* Bounds of the model.                                                    *)
(***************************************************************************)
\* BATCH_SIZE is drawn from 1..MaxBatchSize (the code fixes it to 200).
MaxBatchSize == 2
\* A staged file left by an earlier run holds 0..MaxStagedRows rows.
MaxStagedRows == 4
MaxTransformRuns == 2
MaxReadings == 2

(***************************************************************************)
(* Configuration (extract.py, load.py).                                    *)
(***************************************************************************)
CITIES == <<"Delhi", "Mumbai", "Bengaluru", "Hyderabad", "Kolkata">>

POLLUTANTS == <<"pm10", "pm2_5", "carbon_monoxide", "nitrogen_dioxide",
                "ozone", "sulphur_dioxide", "uv_index">>

EXTRACT_MAX_RETRIES == 3

LOAD_MAX_RETRIES == 2

\* Missing value of a numeric column (pandas NaN / NaT).
NaN == -1

\* JSON null, as sent to the sink and as received from the API.
None == -2

\* time.sleep(2) between two insert attempts.
INSERT_RETRY_WAIT == 2

RECURSIVE Pow2(_)
Pow2(n) == IF n = 0 THEN 1 ELSE 2 * Pow2(n - 1)

Range(s) == {s[k] : k \in 1..Len(s)}

(***************************************************************************)
(* State.                                                                  *)
(***************************************************************************)
VARIABLES
    mainPc,         \* position of run_pipeline.main, or the script that runs alone
    exitStatus,     \* process exit status: -1 while running, then 0 or 1
    started,        \* stages whose function was called, in order
    completed,      \* stages whose function returned without raising, in order
    BATCH_SIZE,     \* load.py's batch size, fixed at start
    rawStore,       \* files of data/raw: set of [name, payload]
    now,            \* wall-clock second that datetime.now() reads
    staged,         \* data/staged/air_quality_transformed.csv: [exists, rows]
    table,          \* rows the sink accepted, in order of acceptance
    extPc,          \* position of run_extraction
    cityIdx,        \* index in CITIES of the city being fetched
    attempt,        \* fetch_city_data's loop variable (1-based)
    saved_files,    \* run_extraction's list of saved paths
    attempted,      \* cities for which fetch_city_data was called, in order
    fetchReturns,   \* what each fetch_city_data call returned: [city, path]
    loadPc,         \* position of run_loading
    records,        \* run_loading's list of row dicts
    i,              \* run_loading's loop offset (0-based)
    insAttempt,     \* insert_batch's loop variable (0-based)
    success_count,  \* run_loading's counter
    fail_count,     \* run_loading's counter
    batchLog,       \* batches handed to insert_batch: [index, rows, result]
    callLog         \* the retried call in progress or last returned in this stage

mainVars == <<mainPc, exitStatus, started, completed>>
storeVars == <<rawStore, now, staged, table>>
extVars == <<extPc, cityIdx, attempt, saved_files, attempted, fetchReturns>>
loadVars == <<loadPc, records, i, insAttempt, success_count, fail_count, batchLog>>
vars == <<mainVars, BATCH_SIZE, storeVars, extVars, loadVars, callLog>>

(***************************************************************************)
(* Raw payloads: the API response as json.dump writes it.                  *)
(* has_hourly is FALSE when the "hourly" object is missing or empty; cols  *)
(* are the series it holds, rows the time-aligned entries; aligned is      *)
(* FALSE when the series differ in length (rows then holds no entry).      *)
(***************************************************************************)
AllCols == {"time"} \cup Range(POLLUTANTS)

MkRow(h, v) == [c \in AllCols |-> IF c = "time" THEN h ELSE v]

RespFull ==
    [has_hourly |-> TRUE, aligned |-> TRUE, cols |-> AllCols,
     rows |-> <<MkRow(0, 30)>>]

RespNulls ==
    [has_hourly |-> TRUE, aligned |-> TRUE, cols |-> AllCols,
     rows |-> <<MkRow(0, None)>>]

RespNoHourly == [has_hourly |-> FALSE, aligned |-> TRUE, cols |-> {}, rows |-> <<>>]

RespNoTime ==
    [has_hourly |-> TRUE, aligned |-> TRUE, cols |-> Range(POLLUTANTS),
     rows |-> <<[c \in Range(POLLUTANTS) |-> 30]>>]

\* A response whose hourly object lacks one pollutant series.
RespNoOzone ==
    [has_hourly |-> TRUE, aligned |-> TRUE, cols |-> AllCols \ {"ozone"},
     rows |-> <<[c \in AllCols \ {"ozone"} |-> IF c = "time" THEN 0 ELSE 30]>>]

\* A response whose series differ in length.
RespRagged == [has_hourly |-> TRUE, aligned |-> FALSE, cols |-> AllCols, rows |-> <<>>]

\* The responses a 2xx fetch may carry.
ApiResponses == {RespFull, RespNoHourly, RespNoTime}

(***************************************************************************)
(* Log of one retried call (a fetch_city_data or insert_batch activation): *)
(* the outcome of each invocation of the remote operation, the sleeps      *)
(* taken, and what the call returned.                                      *)
(***************************************************************************)
NoCall == [op |-> "none", key |-> 0, outcomes |-> <<>>, sleeps |-> <<>>,
           result |-> "none"]

NewCall(op, key) == [op |-> op, key |-> key, outcomes |-> <<>>, sleeps |-> <<>>,
                     result |-> "pending"]

LogOutcome(log, kind) == [log EXCEPT !.outcomes = Append(@, kind)]

LogSleep(log, secs) == [log EXCEPT !.sleeps = Append(@, secs)]

LogResult(log, res) == [log EXCEPT !.result = res]

(***************************************************************************)
(* Strings as sequences of characters, and the str methods the file names  *)
(* go through.                                                             *)
(***************************************************************************)
LowerAlpha ==
    <<"a", "b", "c", "d", "e", "f", "g", "h", "i", "j", "k", "l", "m", "n",
      "o", "p", "q", "r", "s", "t", "u", "v", "w", "x", "y", "z">>

UpperAlpha ==
    <<"A", "B", "C", "D", "E", "F", "G", "H", "I", "J", "K", "L", "M", "N",
      "O", "P", "Q", "R", "S", "T", "U", "V", "W", "X", "Y", "Z">>

IndexIn(seq, ch) ==
    IF \E k \in 1..Len(seq) : seq[k] = ch
    THEN CHOOSE k \in 1..Len(seq) : seq[k] = ch
    ELSE 0

lower_char(ch) ==
    IF IndexIn(UpperAlpha, ch) > 0 THEN LowerAlpha[IndexIn(UpperAlpha, ch)] ELSE ch

upper_char(ch) ==
    IF IndexIn(LowerAlpha, ch) > 0 THEN UpperAlpha[IndexIn(LowerAlpha, ch)] ELSE ch

IsAlpha(ch) == IndexIn(LowerAlpha, ch) > 0 \/ IndexIn(UpperAlpha, ch) > 0

\* str.lower()
str_lower(cs) == [k \in 1..Len(cs) |-> lower_char(cs[k])]

\* str.replace(a, b) for one-character a and b
str_replace(cs, a, b) == [k \in 1..Len(cs) |-> IF cs[k] = a THEN b ELSE cs[k]]

\* str.title(): a letter that follows a non-letter is upper-cased, any other
\* letter lower-cased.
str_title(cs) ==
    [k \in 1..Len(cs) |->
        IF k = 1 \/ ~IsAlpha(cs[k - 1]) THEN upper_char(cs[k]) ELSE lower_char(cs[k])]

\* str.split(sep)[0]: what precedes the first occurrence of sep.
split_head(cs, sep) ==
    LET hits == {k \in 1..(Len(cs) - Len(sep) + 1) :
                    SubSeq(cs, k, k + Len(sep) - 1) = sep}
    IN IF hits = {} THEN cs
       ELSE SubSeq(cs, 1, (CHOOSE k \in hits : \A m \in hits : k <= m) - 1)

\* The characters of the configured names and of the file stems.
Chars(name) ==
    CASE name = "Delhi" -> <<"D", "e", "l", "h", "i">>
      [] name = "Mumbai" -> <<"M", "u", "m", "b", "a", "i">>
      [] name = "Bengaluru" -> <<"B", "e", "n", "g", "a", "l", "u", "r", "u">>
      [] name = "Hyderabad" -> <<"H", "y", "d", "e", "r", "a", "b", "a", "d">>
      [] name = "Kolkata" -> <<"K", "o", "l", "k", "a", "t", "a">>
      [] name = "delhi" -> <<"d", "e", "l", "h", "i">>
      [] name = "mumbai" -> <<"m", "u", "m", "b", "a", "i">>
      [] name = "bengaluru" -> <<"b", "e", "n", "g", "a", "l", "u", "r", "u">>
      [] name = "hyderabad" -> <<"h", "y", "d", "e", "r", "a", "b", "a", "d">>
      [] name = "kolkata" -> <<"k", "o", "l", "k", "a", "t", "a">>
      [] OTHER -> <<>>

Digits == <<"0", "1", "2", "3", "4", "5", "6", "7", "8", "9">>

\* strftime("%Y%m%d_%H%M%S") of the second ts of the model's clock
stamp_chars(ts) ==
    <<"2", "0", "2", "6", "1", "1", "0", "5", "_", "1", "2", "0", "0", "0",
      Digits[(ts % 10) + 1]>>

\* f"{city_name.lower().replace(' ', '_')}_raw_{timestamp}.json"
filename_chars(city, ts) ==
    str_replace(str_lower(city), " ", "_") \o <<"_", "r", "a", "w", "_">>
    \o stamp_chars(ts) \o <<".", "j", "s", "o", "n">>

\* filename.split('_raw_')[0].replace('_', ' ').title()
label_chars(filename) ==
    str_title(str_replace(split_head(filename, <<"_", "r", "a", "w", "_">>), "_", " "))

(***************************************************************************)
(* extract.py                                                              *)
(***************************************************************************)
\* What one requests.get + raise_for_status + json + save can do.
FetchOutcomes == {"ok", "HTTPError", "ConnectionError", "Timeout", "Exception"}

\* city_name.lower().replace(' ', '_')
lower_name(city) ==
    CASE city = "Delhi" -> "delhi"
      [] city = "Mumbai" -> "mumbai"
      [] city = "Bengaluru" -> "bengaluru"
      [] city = "Hyderabad" -> "hyderabad"
      [] city = "Kolkata" -> "kolkata"
      [] OTHER -> city

\* f"{city}_raw_{timestamp}.json" under RAW_DATA_DIR.  The files of one run
\* differ by city, so the clock is read as `now` and not advanced in a run.
raw_filepath(city, ts) == [city |-> lower_name(city), ts |-> ts]

NoPath == [city |-> "", ts |-> 0]

\* open(filepath, 'w') + json.dump: a file of that name is replaced.
write_raw(store, path, payload) ==
    {f \in store : f.name # path} \cup {[name |-> path, payload |-> payload]}

Sleep(secs) == [act |-> "sleep", secs |-> secs]

ReturnNone == [act |-> "return_none", secs |-> 0]

\* Variant: the exponent starts at 0, so the waits are 1 s and 2 s.
on_http_error_late_exponent(att) ==
    IF att < EXTRACT_MAX_RETRIES THEN Sleep(Pow2(att - 1)) ELSE ReturnNone

\* except requests.exceptions.HTTPError
on_http_error(att) ==
    IF att < EXTRACT_MAX_RETRIES THEN Sleep(Pow2(att)) ELSE ReturnNone

\* except requests.exceptions.ConnectionError
on_connection_error(att) ==
    IF att < EXTRACT_MAX_RETRIES THEN Sleep(Pow2(att)) ELSE ReturnNone

\* Variant: a timeout on the last attempt is followed by one more attempt.
on_timeout_extra(att) ==
    IF att <= EXTRACT_MAX_RETRIES THEN Sleep(Pow2(att)) ELSE ReturnNone

\* except requests.exceptions.Timeout
on_timeout(att) ==
    IF att < EXTRACT_MAX_RETRIES THEN Sleep(Pow2(att)) ELSE ReturnNone

\* Variant: an unexpected error is retried like the others.
on_unexpected_error_retry(att) ==
    IF att < EXTRACT_MAX_RETRIES THEN Sleep(Pow2(att)) ELSE ReturnNone

\* except Exception: fail immediately
on_unexpected_error(att) == ReturnNone

fetch_on_error(kind, att) ==
    CASE kind = "HTTPError" -> on_http_error(att)
      [] kind = "ConnectionError" -> on_connection_error(att)
      [] kind = "Timeout" -> on_timeout(att)
      [] OTHER -> on_unexpected_error(att)

\* Variant: the returned value is appended without the `if filepath` test.
collect_path_always(saved, ret) == Append(saved, ret.path)

\* run_extraction: if filepath: saved_files.append(filepath)
collect_path(saved, ret) == IF ret.ok THEN Append(saved, ret.path) ELSE saved

\* fetch_city_data returned `ret` to run_extraction's loop, which goes on to
\* the next city or leaves the loop.
FetchReturned(ret, log) ==
    /\ saved_files' = collect_path(saved_files, ret)
    /\ fetchReturns' = Append(fetchReturns, [city |-> CITIES[cityIdx],
                                             ok |-> ret.ok, path |-> ret.path])
    /\ callLog' = LogResult(log, IF ret.ok THEN "ok" ELSE "failed")
    /\ cityIdx' = cityIdx + 1
    /\ attempt' = 1
    /\ extPc' = IF cityIdx < Len(CITIES) THEN "fetching" ELSE "summary"

\* run_extraction's first lines: saved_files = [] and the loop's first city.
BeginExtraction ==
    /\ extPc' = IF Len(CITIES) > 0 THEN "fetching" ELSE "summary"
    /\ cityIdx' = 1
    /\ attempt' = 1
    /\ saved_files' = <<>>
    /\ attempted' = <<>>
    /\ fetchReturns' = <<>>
    /\ callLog' = NoCall

\* python extract.py: the __main__ block calls run_extraction.
ExtractMain ==
    /\ mainPc = "extract.py"
    /\ extPc = "idle"
    /\ BeginExtraction
    /\ UNCHANGED <<mainVars, BATCH_SIZE, storeVars, loadVars>>

\* One iteration of fetch_city_data's retry loop for the current city, with
\* run_extraction's handling of the return value when the call returns.
FetchAttempt ==
    /\ extPc = "fetching"
    /\ \E kind \in FetchOutcomes, payload \in ApiResponses :
         LET city == CITIES[cityIdx]
             log0 == IF attempt = 1 THEN NewCall("fetch", cityIdx) ELSE callLog
             log == LogOutcome(log0, kind)
             path == raw_filepath(city, now)
             h == fetch_on_error(kind, attempt)
         IN
         /\ attempted' = IF attempt = 1 THEN Append(attempted, city) ELSE attempted
         /\ IF kind = "ok"
            THEN /\ rawStore' = write_raw(rawStore, path, payload)
                 /\ FetchReturned([ok |-> TRUE, path |-> path], log)
            ELSE /\ payload = RespFull
                 /\ rawStore' = rawStore
                 /\ IF h.act = "sleep"
                    THEN /\ attempt' = attempt + 1
                         /\ callLog' = LogSleep(log, h.secs)
                         /\ UNCHANGED <<extPc, cityIdx, saved_files, fetchReturns>>
                    ELSE FetchReturned([ok |-> FALSE, path |-> NoPath], log)
    /\ UNCHANGED <<mainVars, BATCH_SIZE, now, staged, table, loadVars>>

\* run_extraction prints its summary and returns saved_files.
ExtractSummary ==
    /\ extPc = "summary"
    /\ extPc' = "returned"
    /\ callLog' = NoCall
    /\ UNCHANGED <<mainVars, BATCH_SIZE, storeVars, loadVars,
                   cityIdx, attempt, saved_files, attempted, fetchReturns>>

(***************************************************************************)
(* transform.py                                                            *)
(***************************************************************************)
\* Variant: the upper edge of each band belongs to the next band.
get_aqi_category_strict(pm2_5) ==
    IF pm2_5 = NaN THEN "Unknown"
    ELSE IF pm2_5 < 50 THEN "Good"
    ELSE IF pm2_5 < 100 THEN "Moderate"
    ELSE IF pm2_5 < 200 THEN "Unhealthy"
    ELSE IF pm2_5 < 300 THEN "Very Unhealthy"
    ELSE "Hazardous"

get_aqi_category(pm2_5) ==
    IF pm2_5 = NaN THEN "Unknown"
    ELSE IF pm2_5 <= 50 THEN "Good"
    ELSE IF pm2_5 <= 100 THEN "Moderate"
    ELSE IF pm2_5 <= 200 THEN "Unhealthy"
    ELSE IF pm2_5 <= 300 THEN "Very Unhealthy"
    ELSE "Hazardous"

\* Variant: a score on a threshold takes the higher label.
get_risk_label_inclusive(severity) ==
    IF severity = NaN THEN "Unknown"
    ELSE IF severity >= 400 THEN "High Risk"
    ELSE IF severity >= 200 THEN "Moderate Risk"
    ELSE "Low Risk"

get_risk_label(severity) ==
    IF severity = NaN THEN "Unknown"
    ELSE IF severity > 400 THEN "High Risk"
    ELSE IF severity > 200 THEN "Moderate Risk"
    ELSE "Low Risk"

\* Variant: the file stem is taken as the label as it is.
title_name_stem(lower) == lower

\* filename.split('_raw_')[0].replace('_', ' ').title()
title_name(lower) ==
    CASE lower = "delhi" -> "Delhi"
      [] lower = "mumbai" -> "Mumbai"
      [] lower = "bengaluru" -> "Bengaluru"
      [] lower = "hyderabad" -> "Hyderabad"
      [] lower = "kolkata" -> "Kolkata"
      [] OTHER -> lower

\* process_city_file: None (ok = FALSE) when the payload has no hourly data
\* or pd.DataFrame raises on series of unequal length (caught), else the
\* hourly table with a city column.
process_city_file(f) ==
    IF ~f.payload.has_hourly
    THEN [ok |-> FALSE, cols |-> {}, rows |-> <<>>]
    ELSE IF ~f.payload.aligned
    THEN [ok |-> FALSE, cols |-> {}, rows |-> <<>>]
    ELSE [ok |-> TRUE,
          cols |-> f.payload.cols \cup {"city"},
          rows |-> [k \in 1..Len(f.payload.rows) |->
                      [c \in f.payload.cols \cup {"city"} |->
                         IF c = "city" THEN title_name(f.name.city)
                         ELSE f.payload.rows[k][c]]]]

CityRank(lower) ==
    IF \E k \in 1..Len(CITIES) : lower_name(CITIES[k]) = lower
    THEN CHOOSE k \in 1..Len(CITIES) : lower_name(CITIES[k]) = lower
    ELSE 0

FileBefore(f, g) ==
    \/ CityRank(f.name.city) < CityRank(g.name.city)
    \/ CityRank(f.name.city) = CityRank(g.name.city) /\ f.name.ts <= g.name.ts

\* glob.glob(data/raw/*.json): the directory's files, in the listing's order.
RECURSIVE glob_files(_)
glob_files(store) ==
    IF store = {} THEN <<>>
    ELSE LET f == CHOOSE f \in store : \A g \in store : FileBefore(f, g)
         IN <<f>> \o glob_files(store \ {f})

\* The frames of the files process_city_file accepted, in order.
RECURSIVE data_frames(_)
data_frames(files) ==
    IF files = <<>> THEN <<>>
    ELSE LET df == process_city_file(Head(files))
         IN (IF df.ok THEN <<df>> ELSE <<>>) \o data_frames(Tail(files))

RECURSIVE UnionCols(_)
UnionCols(dfs) == IF dfs = <<>> THEN {} ELSE Head(dfs).cols \cup UnionCols(Tail(dfs))

RECURSIVE ConcatRows(_, _)
ConcatRows(dfs, cols) ==
    IF dfs = <<>> THEN <<>>
    ELSE LET d == Head(dfs)
         IN [k \in 1..Len(d.rows) |->
               [c \in cols |-> IF c \in d.cols THEN d.rows[k][c] ELSE NaN]]
            \o ConcatRows(Tail(dfs), cols)

\* pd.concat(data_frames, ignore_index=True): a column a frame lacks is NaN.
concat(dfs) == [cols |-> UnionCols(dfs), rows |-> ConcatRows(dfs, UnionCols(dfs))]

\* pd.to_numeric(errors='coerce') and pd.to_datetime on a null
to_numeric(v) == IF v = None THEN NaN ELSE v

\* Variant: how='any', a row with a pollutant missing is dropped.
keeps_row_any(r) == \A p \in Range(POLLUTANTS) : to_numeric(r[p]) # NaN

\* dropna(subset=pollutants, how='all') keeps a row with a pollutant present.
keeps_row(r) == \E p \in Range(POLLUTANTS) : to_numeric(r[p]) # NaN

\* time.dt.hour
hour_of(t) == IF t = NaN THEN NaN ELSE t % 24

\* Variant: a missing pollutant contributes zero to the score.
severity_of_fillna(r) ==
    LET z(v) == IF v = NaN THEN 0 ELSE v
    IN z(r["pm2_5"]) * 5 + z(r["pm10"]) * 3 + z(r["nitrogen_dioxide"]) * 4
       + z(r["sulphur_dioxide"]) * 4 + z(r["carbon_monoxide"]) * 2
       + z(r["ozone"]) * 3

\* 5*pm2_5 + 3*pm10 + 4*no2 + 4*so2 + 2*co + 3*o3 in NaN arithmetic
severity_of(r) ==
    IF \E p \in {"pm2_5", "pm10", "nitrogen_dioxide", "sulphur_dioxide",
                 "carbon_monoxide", "ozone"} : r[p] = NaN
    THEN NaN
    ELSE r["pm2_5"] * 5 + r["pm10"] * 3 + r["nitrogen_dioxide"] * 4
         + r["sulphur_dioxide"] * 4 + r["carbon_monoxide"] * 2 + r["ozone"] * 3

\* One row of the staged file, from one row of the concatenated frame.
staged_row(r) ==
    LET n == [c \in DOMAIN r |-> IF c = "city" THEN r[c] ELSE to_numeric(r[c])]
    IN [city |-> n["city"], time |-> n["time"], hour |-> hour_of(n["time"]),
        pm10 |-> n["pm10"], pm2_5 |-> n["pm2_5"],
        nitrogen_dioxide |-> n["nitrogen_dioxide"],
        sulphur_dioxide |-> n["sulphur_dioxide"], ozone |-> n["ozone"],
        carbon_monoxide |-> n["carbon_monoxide"], uv_index |-> n["uv_index"],
        aqi_category |-> get_aqi_category(n["pm2_5"]),
        severity_score |-> severity_of(n),
        risk_label |-> get_risk_label(severity_of(n))]

RECURSIVE SelectRows(_)
SelectRows(rows) ==
    IF rows = <<>> THEN <<>>
    ELSE (IF keeps_row(Head(rows)) THEN <<staged_row(Head(rows))>> ELSE <<>>)
         \o SelectRows(Tail(rows))

\* run_transformation on the raw store: "returned" when it returns before
\* writing (no file, or no valid frame), "raised" when a column every frame
\* lacks is read (KeyError), else "written" with the staged rows.
run_transformation(store) ==
    LET dfs == data_frames(glob_files(store))
        full == concat(dfs)
    IN IF store = {} \/ dfs = <<>>
       THEN [status |-> "returned", rows |-> <<>>]
       ELSE IF ~(AllCols \subseteq full.cols)
       THEN [status |-> "raised", rows |-> <<>>]
       ELSE [status |-> "written", rows |-> SelectRows(full.rows)]

\* Variant: the rows are appended to the staged file (mode='a').
write_staged_append(old, r) ==
    IF r.status = "written"
    THEN [exists |-> TRUE, rows |-> old.rows \o r.rows]
    ELSE old

\* final_df.to_csv(OUTPUT_FILE, index=False): the staged file is replaced
\* when the run reaches the write, and left as it was when it returns early.
write_staged(old, r) ==
    IF r.status = "written" THEN [exists |-> TRUE, rows |-> r.rows] ELSE old

\* python transform.py: the __main__ block calls run_transformation; an
\* exception it raises ends the process with status 1.  callLog keeps what
\* the run printed last: its summary, an error line, or the traceback.
TransformMain ==
    /\ mainPc = "transform.py"
    /\ Len(started) < MaxTransformRuns
    /\ started' = Append(started, "Transforming")
    /\ LET r == run_transformation(rawStore)
       IN /\ callLog' = LogResult(NewCall("transform", Len(started) + 1), r.status)
          /\ staged' = write_staged(staged, r)
          /\ IF r.status = "raised"
             THEN exitStatus' = 1 /\ UNCHANGED completed
             ELSE exitStatus' = 0 /\ completed' = Append(completed, "Transforming")
    /\ UNCHANGED <<mainPc, BATCH_SIZE, rawStore, now, table, extVars, loadVars>>

(***************************************************************************)
(* load.py                                                                 *)
(***************************************************************************)
\* What one supabase insert(...).execute() can do: rows returned, an empty
\* response, or an exception (network fault, unparsable response).
InsertOutcomes == {"ok", "empty", "ConnectionError", "MalformedResponse"}

\* df.replace({np.nan: None})
nan_to_none(v) == IF v = NaN THEN None ELSE v

\* clean_data_for_json on one row: risk_label becomes risk_flag, NaN None.
clean_row(r) ==
    [city |-> r.city, time |-> nan_to_none(r.time), hour |-> nan_to_none(r.hour),
     pm10 |-> nan_to_none(r.pm10), pm2_5 |-> nan_to_none(r.pm2_5),
     nitrogen_dioxide |-> nan_to_none(r.nitrogen_dioxide),
     sulphur_dioxide |-> nan_to_none(r.sulphur_dioxide),
     ozone |-> nan_to_none(r.ozone),
     carbon_monoxide |-> nan_to_none(r.carbon_monoxide),
     uv_index |-> nan_to_none(r.uv_index),
     aqi_category |-> r.aqi_category,
     severity_score |-> nan_to_none(r.severity_score),
     risk_flag |-> r.risk_label]

clean_data_for_json(rows) == [k \in 1..Len(rows) |-> clean_row(rows[k])]

ReturnFalse == [act |-> "return_false", secs |-> 0]

\* Variant: the last attempt is followed by one more sleep and attempt.
insert_on_error_extra(att) ==
    IF att <= LOAD_MAX_RETRIES THEN Sleep(INSERT_RETRY_WAIT) ELSE ReturnFalse

\* insert_batch's except Exception clause
insert_on_error(att) ==
    IF att < LOAD_MAX_RETRIES THEN Sleep(INSERT_RETRY_WAIT) ELSE ReturnFalse

Min(a, b) == IF a <= b THEN a ELSE b

\* records[i : i + BATCH_SIZE]
batch_at(recs, off, size) == SubSeq(recs, off + 1, Min(off + size, Len(recs)))

\* (i // BATCH_SIZE) + 1
batch_index_at(off, size) == (off \div size) + 1

\* Variant: the loop also runs at offset == total_records.
more_batches_inclusive(off, size, total) == off + size <= total

\* range(0, total_records, BATCH_SIZE): is there a next offset
more_batches(off, size, total) == off + size < total

\* Variant: a successful batch is counted as BATCH_SIZE rows, not len(batch).
count_success_full(ok, n) == IF ok THEN success_count + BATCH_SIZE ELSE success_count

\* if insert_batch(...): success_count += len(batch) else: fail_count += ...
count_success(ok, n) == IF ok THEN success_count + n ELSE success_count

count_fail(ok, n) == IF ok THEN fail_count ELSE fail_count + n

\* Variant: a failed batch ends the loop instead of going on to the next one.
InsertReturned_abort(ok, log) ==
    LET batch == batch_at(records, i, BATCH_SIZE)
    IN /\ success_count' = IF ok THEN success_count + Len(batch) ELSE success_count
       /\ fail_count' = IF ok THEN fail_count ELSE fail_count + Len(batch)
       /\ batchLog' = Append(batchLog,
                             [index |-> (i \div BATCH_SIZE) + 1,
                              offset |-> i, rows |-> batch, ok |-> ok])
       /\ callLog' = LogResult(log, IF ok THEN "ok" ELSE "failed")
       /\ i' = i + BATCH_SIZE
       /\ insAttempt' = 0
       /\ loadPc' = IF ok /\ i + BATCH_SIZE < Len(records)
                    THEN "inserting" ELSE "summary"

\* insert_batch returned `ok` to run_loading's loop, which counts the batch
\* and goes on to the next batch or leaves the loop.
InsertReturned(ok, log) ==
    LET batch == batch_at(records, i, BATCH_SIZE)
    IN /\ success_count' = count_success(ok, Len(batch))
       /\ fail_count' = count_fail(ok, Len(batch))
       /\ batchLog' = Append(batchLog,
                             [index |-> batch_index_at(i, BATCH_SIZE),
                              offset |-> i, rows |-> batch, ok |-> ok])
       /\ callLog' = LogResult(log, IF ok THEN "ok" ELSE "failed")
       /\ i' = i + BATCH_SIZE
       /\ insAttempt' = 0
       /\ loadPc' = IF more_batches(i, BATCH_SIZE, Len(records))
                    THEN "inserting" ELSE "summary"

\* run_loading up to its loop: return at once when the staged file is
\* missing, else read it, clean it, and start at offset 0.
BeginLoading ==
    /\ IF ~staged.exists
       THEN /\ loadPc' = "returned"
            /\ records' = <<>>
       ELSE /\ records' = clean_data_for_json(staged.rows)
            /\ loadPc' = IF Len(staged.rows) > 0 THEN "inserting" ELSE "summary"
    /\ i' = 0
    /\ insAttempt' = 0
    /\ success_count' = 0
    /\ fail_count' = 0
    /\ batchLog' = <<>>
    /\ callLog' = NoCall

\* python load.py: the __main__ block calls run_loading.
LoadMain ==
    /\ mainPc = "load.py"
    /\ loadPc = "idle"
    /\ BeginLoading
    /\ UNCHANGED <<mainVars, BATCH_SIZE, storeVars, extVars>>

\* Variant: insert_batch lacks its return after a non-empty response, so the
\* loop goes on to the next attempt and the call ends returning nothing.
InsertAttempt_no_return ==
    /\ loadPc = "inserting"
    /\ \E kind \in InsertOutcomes :
         LET idx == batch_index_at(i, BATCH_SIZE)
             log0 == IF insAttempt = 0 THEN NewCall("insert", idx) ELSE callLog
             log == LogOutcome(log0, kind)
             h == insert_on_error(insAttempt)
         IN /\ table' = IF kind = "ok"
                        THEN table \o batch_at(records, i, BATCH_SIZE)
                        ELSE table
            /\ IF h.act = "sleep"
               THEN /\ insAttempt' = insAttempt + 1
                    /\ callLog' = IF kind = "ok" THEN log ELSE LogSleep(log, h.secs)
                    /\ UNCHANGED <<loadPc, records, i, success_count,
                                   fail_count, batchLog>>
               ELSE /\ InsertReturned(FALSE, log)
                    /\ UNCHANGED records
    /\ UNCHANGED <<mainVars, BATCH_SIZE, rawStore, now, staged, extVars>>

\* One iteration of insert_batch's retry loop for the current batch, with
\* run_loading's counting when the call returns.
InsertAttempt ==
    /\ loadPc = "inserting"
    /\ \E kind \in InsertOutcomes :
         LET idx == batch_index_at(i, BATCH_SIZE)
             log0 == IF insAttempt = 0 THEN NewCall("insert", idx) ELSE callLog
             log == LogOutcome(log0, kind)
             h == insert_on_error(insAttempt)
         IN IF kind = "ok"
            THEN /\ table' = table \o batch_at(records, i, BATCH_SIZE)
                 /\ InsertReturned(TRUE, log)
                 /\ UNCHANGED records
            ELSE /\ table' = table
                 /\ IF h.act = "sleep"
                    THEN /\ insAttempt' = insAttempt + 1
                         /\ callLog' = LogSleep(log, h.secs)
                         /\ UNCHANGED <<loadPc, records, i, success_count,
                                        fail_count, batchLog>>
                    ELSE /\ InsertReturned(FALSE, log)
                         /\ UNCHANGED records
    /\ UNCHANGED <<mainVars, BATCH_SIZE, rawStore, now, staged, extVars>>

\* run_loading prints its summary and returns.
LoadSummary ==
    /\ loadPc = "summary"
    /\ loadPc' = "returned"
    /\ callLog' = NoCall
    /\ UNCHANGED <<mainVars, BATCH_SIZE, storeVars, extVars, records, i,
                   insAttempt, success_count, fail_count, batchLog>>

(***************************************************************************)
(* run_pipeline.py                                                         *)
(***************************************************************************)
\* sys.exit(1) in a stage's except clause.
Exit1 ==
    /\ mainPc' = "Exited"
    /\ exitStatus' = 1

\* Step 1 starts: main calls run_extraction.
MainExtract ==
    /\ mainPc = "Start"
    /\ mainPc' = "Extracting"
    /\ started' = Append(started, "Extracting")
    /\ BeginExtraction
    /\ UNCHANGED <<exitStatus, completed, BATCH_SIZE, storeVars, loadVars>>

\* run_extraction returned: no file saved raises and exits, else step 1 ends.
MainAfterExtract ==
    /\ mainPc = "Extracting"
    /\ extPc = "returned"
    /\ IF saved_files = <<>>
       THEN Exit1 /\ UNCHANGED completed
       ELSE /\ mainPc' = "Transforming"
            /\ completed' = Append(completed, "Extracting")
            /\ UNCHANGED exitStatus
    /\ UNCHANGED <<started, BATCH_SIZE, storeVars, extVars, loadVars, callLog>>

\* Variant: the raw files are removed once their rows are staged.
MainTransform_consume ==
    /\ mainPc = "Transforming"
    /\ started' = Append(started, "Transforming")
    /\ LET r == run_transformation(rawStore)
       IN IF r.status = "raised"
          THEN Exit1 /\ UNCHANGED <<completed, staged, rawStore>>
          ELSE /\ mainPc' = "Loading"
               /\ completed' = Append(completed, "Transforming")
               /\ staged' = write_staged(staged, r)
               /\ rawStore' = IF r.status = "written" THEN {} ELSE rawStore
               /\ UNCHANGED exitStatus
    /\ UNCHANGED <<BATCH_SIZE, now, table, extVars, loadVars, callLog>>

\* Variant: an exception of run_transformation is swallowed and step 3 runs.
MainTransform_swallow ==
    /\ mainPc = "Transforming"
    /\ started' = Append(started, "Transforming")
    /\ LET r == run_transformation(rawStore)
       IN /\ mainPc' = "Loading"
          /\ completed' = IF r.status = "raised" THEN completed
                          ELSE Append(completed, "Transforming")
          /\ staged' = IF r.status = "written"
                       THEN [exists |-> TRUE, rows |-> r.rows]
                       ELSE staged
          /\ UNCHANGED exitStatus
    /\ UNCHANGED <<BATCH_SIZE, rawStore, now, table, extVars, loadVars, callLog>>

\* Step 2: main calls run_transformation.
MainTransform ==
    /\ mainPc = "Transforming"
    /\ started' = Append(started, "Transforming")
    /\ LET r == run_transformation(rawStore)
       IN IF r.status = "raised"
          THEN Exit1 /\ UNCHANGED <<completed, staged>>
          ELSE /\ mainPc' = "Loading"
               /\ completed' = Append(completed, "Transforming")
               /\ staged' = write_staged(staged, r)
               /\ UNCHANGED exitStatus
    /\ UNCHANGED <<BATCH_SIZE, rawStore, now, table, extVars, loadVars, callLog>>

\* Step 3 starts: main calls run_loading.
MainLoad ==
    /\ mainPc = "Loading"
    /\ loadPc = "idle"
    /\ started' = Append(started, "Loading")
    /\ BeginLoading
    /\ UNCHANGED <<mainPc, exitStatus, completed, BATCH_SIZE, storeVars, extVars>>

\* Variant: failed rows make step 3 fail and the run exit.
MainAfterLoad_strict ==
    /\ mainPc = "Loading"
    /\ loadPc = "returned"
    /\ IF fail_count > 0
       THEN Exit1 /\ UNCHANGED completed
       ELSE /\ mainPc' = "Reporting"
            /\ completed' = Append(completed, "Loading")
            /\ UNCHANGED exitStatus
    /\ UNCHANGED <<started, BATCH_SIZE, storeVars, extVars, loadVars, callLog>>

\* run_loading returned: step 3 ends.
MainAfterLoad ==
    /\ mainPc = "Loading"
    /\ loadPc = "returned"
    /\ mainPc' = "Reporting"
    /\ completed' = Append(completed, "Loading")
    /\ UNCHANGED <<exitStatus, started, BATCH_SIZE, storeVars, extVars, loadVars,
                   callLog>>

\* What run_analysis can do: return, or raise.
ReportOutcomes == {"returns", "raises"}

\* Step 4: main calls run_analysis, then prints the banner with the elapsed
\* time and ends.
MainReport ==
    /\ mainPc = "Reporting"
    /\ started' = Append(started, "Reporting")
    /\ \E out \in ReportOutcomes :
         IF out = "raises"
         THEN Exit1 /\ UNCHANGED completed
         ELSE /\ mainPc' = "Finished"
              /\ exitStatus' = 0
              /\ completed' = Append(completed, "Reporting")
    /\ UNCHANGED <<BATCH_SIZE, storeVars, extVars, loadVars, callLog>>

(***************************************************************************)
(* Specifications.                                                         *)
(***************************************************************************)
IdleLoad ==
    /\ loadPc = "idle" /\ records = <<>> /\ i = 0 /\ insAttempt = 0
    /\ success_count = 0 /\ fail_count = 0 /\ batchLog = <<>>

IdleExtract ==
    /\ extPc = "idle" /\ cityIdx = 1 /\ attempt = 1 /\ saved_files = <<>>
    /\ attempted = <<>> /\ fetchReturns = <<>>

\* The stores before a first run: no raw file, no staged file, an empty table.
FreshStores ==
    /\ rawStore = {} /\ now = 1 /\ staged = [exists |-> FALSE, rows |-> <<>>]
    /\ table = <<>>

InitExtract ==
    /\ mainPc = "extract.py" /\ exitStatus = -1
    /\ started = <<>> /\ completed = <<>>
    /\ BATCH_SIZE = MaxBatchSize
    /\ FreshStores /\ IdleExtract /\ IdleLoad
    /\ callLog = NoCall

NextExtract == ExtractMain \/ FetchAttempt \/ ExtractSummary

SpecExtract == InitExtract /\ [][NextExtract]_vars

\* A staged file as an earlier run left it: n rows, told apart by their time.
StagedSample(n) ==
    [exists |-> TRUE,
     rows |-> [k \in 1..n |-> staged_row([MkRow(k, 30) EXCEPT !["pm2_5"] = 30 * k]
                                          @@ [c \in {"city"} |-> "Delhi"])]]

InitLoad ==
    /\ mainPc = "load.py" /\ exitStatus = -1
    /\ started = <<>> /\ completed = <<>>
    /\ BATCH_SIZE \in 1..MaxBatchSize
    /\ rawStore = {} /\ now = 1 /\ table = <<>>
    /\ staged \in {[exists |-> FALSE, rows |-> <<>>]}
                  \cup {StagedSample(n) : n \in 0..MaxStagedRows}
    /\ IdleExtract /\ IdleLoad
    /\ callLog = NoCall

NextLoad == LoadMain \/ InsertAttempt \/ LoadSummary

SpecLoad == InitLoad /\ [][NextLoad]_vars

\* One hourly entry with the pollutants of `present` reported, the others null.
MkReading(h, present, v) ==
    [c \in AllCols |-> IF c = "time" THEN h ELSE IF c \in present THEN v ELSE None]

\* Entries by which pollutants they report.
SparseReadings == {MkReading(0, S, 30) : S \in SUBSET Range(POLLUTANTS)}

\* Entries around the thresholds of get_aqi_category and get_risk_label.
Pm25Levels == {0, 39, 40, 50, 51, 79, 80, 100, 101, 200, 201, 300, 301}

CoLevels == {0, 3}

LevelReading(a, c) == [MkRow(0, 0) EXCEPT !["pm2_5"] = a, !["carbon_monoxide"] = c]

LevelReadings == {LevelReading(a, c) : a \in Pm25Levels, c \in CoLevels}

\* A well-formed response: a first entry, then n entries with every value.
HourlyOf(first, n) ==
    [has_hourly |-> TRUE, aligned |-> TRUE, cols |-> AllCols,
     rows |-> <<first>> \o [k \in 1..n |-> MkRow(k, 30)]]

MalformedResponses == {RespNoHourly, RespNoTime, RespNoOzone, RespRagged}

RawPayloads ==
    {HourlyOf(r, n) : r \in SparseReadings \cup LevelReadings, n \in 0..(MaxReadings - 1)}
    \cup MalformedResponses

OtherPayloads ==
    {HourlyOf(LevelReading(a, 0), 0) : a \in Pm25Levels}
    \cup {RespFull, RespNulls} \cup MalformedResponses

RawFile(city, ts, payload) == [name |-> raw_filepath(city, ts), payload |-> payload]

\* The raw directory as earlier extraction runs left it: a Delhi file, alone
\* or with a Mumbai file or an older Delhi file.
RawStores ==
    {{RawFile("Delhi", 1, p)} : p \in RawPayloads}
    \cup {{RawFile("Delhi", 1, p), RawFile("Mumbai", 1, q)} :
              p \in RawPayloads, q \in OtherPayloads}
    \cup {{RawFile("Delhi", 1, p), RawFile("Delhi", 0, q)} :
              p \in RawPayloads, q \in OtherPayloads}

InitTransform ==
    /\ mainPc = "transform.py" /\ exitStatus = -1
    /\ started = <<>> /\ completed = <<>>
    /\ BATCH_SIZE = MaxBatchSize
    /\ rawStore \in RawStores
    /\ now = 1 /\ table = <<>>
    /\ staged \in {[exists |-> FALSE, rows |-> <<>>], StagedSample(1)}
    /\ IdleExtract /\ IdleLoad
    /\ callLog = NoCall

NextTransform == TransformMain

SpecTransform == InitTransform /\ [][NextTransform]_vars

\* python extract.py run again: data/raw holds the Delhi file an earlier run
\* saved, in an earlier second of the clock or in the second this run
\* starts in (datetime.now() has a resolution of one second in the name).
InitRerun ==
    /\ mainPc = "extract.py" /\ exitStatus = -1
    /\ started = <<>> /\ completed = <<>>
    /\ BATCH_SIZE = MaxBatchSize
    /\ now = 1
    /\ rawStore \in {{RawFile("Delhi", ts, p)} : ts \in {0, 1}, p \in ApiResponses}
    /\ staged = [exists |-> FALSE, rows |-> <<>>] /\ table = <<>>
    /\ IdleExtract /\ IdleLoad
    /\ callLog = NoCall

SpecRerun == InitRerun /\ [][NextExtract]_vars

\* python run_pipeline.py on a fresh checkout.
Init ==
    /\ mainPc = "Start" /\ exitStatus = -1
    /\ started = <<>> /\ completed = <<>>
    /\ BATCH_SIZE \in 1..MaxBatchSize
    /\ FreshStores /\ IdleExtract /\ IdleLoad
    /\ callLog = NoCall

Next ==
    \/ MainExtract
    \/ FetchAttempt
    \/ ExtractSummary
    \/ MainAfterExtract
    \/ MainTransform
    \/ MainLoad
    \/ InsertAttempt
    \/ LoadSummary
    \/ MainAfterLoad
    \/ MainReport

Spec == Init /\ [][Next]_vars

(***************************************************************************)
(* Properties.                                                             *)
(***************************************************************************)
CeilDiv(n, b) == (n + b - 1) \div b

IsPrefix(s, t) == Len(s) <= Len(t) /\ s = SubSeq(t, 1, Len(s))

\* The rows of a sequence of logged batches, concatenated.
RECURSIVE FlattenRows(_)
FlattenRows(log) ==
    IF log = <<>> THEN <<>> ELSE Head(log).rows \o FlattenRows(Tail(log))

\* Number of rows of the logged batches whose insert_batch returned `ok`.
RECURSIVE RowsWith(_, _)
RowsWith(log, ok) ==
    IF log = <<>> THEN 0
    ELSE (IF Head(log).ok = ok THEN Len(Head(log).rows) ELSE 0)
         + RowsWith(Tail(log), ok)

\* run_loading has left its batch loop.
LoopDone == loadPc \in {"summary", "returned"}

\* C1: when run_loading has left its batch loop, the two counters add up to
\* the number of input rows, whatever N, BATCH_SIZE and the sink's outcomes.
C1_CountersAddUp == LoopDone => success_count + fail_count = Len(records)

C1_Witness ==
    /\ loadPc = "summary"
    /\ Len(records) >= 3
    /\ Len(records) % BATCH_SIZE # 0
    /\ success_count > 0
    /\ fail_count > 0

\* C2: run_loading hands exactly ceil(N/B) batches to insert_batch, numbered
\* 1, 2, ...; put end to end they are the input rows in their order; every
\* batch but the last has B rows and the last has 1..B rows.
C2_Partition ==
    LoopDone =>
      /\ Len(batchLog) = CeilDiv(Len(records), BATCH_SIZE)
      /\ FlattenRows(batchLog) = records
      /\ \A k \in 1..Len(batchLog) :
           /\ batchLog[k].index = k
           /\ k < Len(batchLog) => Len(batchLog[k].rows) = BATCH_SIZE
           /\ Len(batchLog[k].rows) \in 1..BATCH_SIZE

C2_Witness ==
    /\ loadPc = "summary"
    /\ BATCH_SIZE = 2
    /\ Len(batchLog) = 2
    /\ Len(batchLog[2].rows) = 1

\* C8: every insert_batch call ends by returning True or False; batch j is
\* always the rows at offset (j-1)*B whatever the earlier batches did, each
\* batch is counted by its own result alone, and a failed batch is followed
\* by the next one until all ceil(N/B) batches were submitted.
C8_BatchesIndependent ==
    /\ callLog.op = "insert" => callLog.result \in {"pending", "ok", "failed"}
    /\ \A j \in 1..Len(batchLog) :
         /\ batchLog[j].index = j
         /\ batchLog[j].rows = batch_at(records, (j - 1) * BATCH_SIZE, BATCH_SIZE)
    /\ success_count = RowsWith(batchLog, TRUE)
    /\ fail_count = RowsWith(batchLog, FALSE)
    /\ loadPc = "inserting" => Len(batchLog) < CeilDiv(Len(records), BATCH_SIZE)
    /\ LoopDone => Len(batchLog) = CeilDiv(Len(records), BATCH_SIZE)

C8_Witness ==
    /\ loadPc = "summary"
    /\ Len(batchLog) >= 3
    /\ ~batchLog[1].ok
    /\ batchLog[2].ok
    /\ ~batchLog[3].ok

\* The failures fetch_city_data retries, and the failures the design calls
\* non-retryable (an unexpected error of a fetch, an unparsable sink response).
RetryableFetch == {"HTTPError", "ConnectionError", "Timeout"}

NonRetryable == {"Exception", "MalformedResponse"}

\* The call's first two invocations failed in a way that is retried and its
\* third succeeded.
ThirdAttemptSucceeded ==
    /\ callLog.op \in {"fetch", "insert"}
    /\ Len(callLog.outcomes) >= 3
    /\ callLog.outcomes[3] = "ok"
    /\ \A k \in 1..2 : callLog.outcomes[k] # "ok"
                       /\ callLog.outcomes[k] \notin NonRetryable

\* The caller of the logged call received success (a path, or True).
CallerGotSuccess ==
    IF callLog.op = "fetch"
    THEN /\ fetchReturns # <<>>
         /\ fetchReturns[Len(fetchReturns)].city = CITIES[callLog.key]
         /\ fetchReturns[Len(fetchReturns)].ok
         /\ saved_files # <<>>
         /\ saved_files[Len(saved_files)] = fetchReturns[Len(fetchReturns)].path
    ELSE /\ batchLog # <<>>
         /\ batchLog[Len(batchLog)].index = callLog.key
         /\ batchLog[Len(batchLog)].ok

\* The caller of the logged call received failure (None, or False).
CallerGotFailure ==
    IF callLog.op = "fetch"
    THEN /\ fetchReturns # <<>>
         /\ fetchReturns[Len(fetchReturns)].city = CITIES[callLog.key]
         /\ ~fetchReturns[Len(fetchReturns)].ok
    ELSE /\ batchLog # <<>>
         /\ batchLog[Len(batchLog)].index = callLog.key
         /\ ~batchLog[Len(batchLog)].ok

C4_RetryCeiling ==
    /\ Len(callLog.outcomes) <= 3
    /\ Len(callLog.outcomes) = 3 /\ callLog.outcomes[3] # "ok" =>
         /\ callLog.result = "failed"
         /\ CallerGotFailure
         /\ Len(callLog.sleeps) = 2

C4_Witness ==
    /\ callLog.op = "insert"
    /\ Len(callLog.outcomes) = 3
    /\ \A k \in 1..3 : callLog.outcomes[k] \in {"empty", "ConnectionError"}
    /\ callLog.result = "failed"
    /\ \E k \in 1..Len(fetchReturns) : ~fetchReturns[k].ok

\* C5 as stated: in a fetch and in an insert alike, an attempt that fails with
\* a non-retryable failure is the call's last: the call has returned failure
\* and did not sleep after it.
C5_NoRetryOfNonRetryable ==
    \A k \in 1..Len(callLog.outcomes) :
      callLog.outcomes[k] \in NonRetryable =>
        /\ Len(callLog.outcomes) = k
        /\ callLog.result = "failed"
        /\ Len(callLog.sleeps) = k - 1

\* C5 amended: that holds of a city fetch (any exception other than
\* HTTPError, ConnectionError and Timeout returns None at once, whatever the
\* attempt number); insert_batch has no such class: every failed attempt
\* before its third, an unparsable response included, is followed by a sleep
\* and another attempt.
C5_FetchFailsFast ==
    /\ callLog.op = "fetch" =>
         \A k \in 1..Len(callLog.outcomes) :
           callLog.outcomes[k] \notin RetryableFetch \cup {"ok"} =>
             /\ Len(callLog.outcomes) = k
             /\ callLog.result = "failed"
             /\ CallerGotFailure
             /\ Len(callLog.sleeps) = k - 1
    /\ callLog.op = "insert" =>
         \A k \in 1..Len(callLog.outcomes) :
           callLog.outcomes[k] # "ok" /\ k < 3 =>
             /\ Len(callLog.sleeps) >= k
             /\ callLog.result = "pending" \/ Len(callLog.outcomes) > k

C5_Witness ==
    /\ callLog.op = "fetch"
    /\ Len(callLog.outcomes) = 2
    /\ callLog.outcomes[1] \in RetryableFetch
    /\ callLog.outcomes[2] = "Exception"
    /\ callLog.result = "failed"

STAGES == <<"Extracting", "Transforming", "Loading", "Reporting">>

\* C6: the stages start in the order Extracting, Transforming, Loading,
\* Reporting, each after the one before it completed; a run that exited with
\* status 1 did so in the stage that raised, and starts no stage after that;
\* the success banner is reached only with all four stages completed.
C6_StageOrder ==
    /\ [](/\ IsPrefix(started, STAGES)
          /\ IsPrefix(completed, started)
          /\ Len(started) <= Len(completed) + 1
          /\ (mainPc = "Exited") = (exitStatus = 1)
          /\ mainPc = "Exited" => Len(started) = Len(completed) + 1
          /\ (mainPc = "Finished") = (exitStatus = 0)
          /\ mainPc = "Finished" => completed = STAGES)
    /\ [][mainPc = "Exited" => mainPc' = "Exited" /\ started' = started]_vars

C6_Witness ==
    /\ mainPc = "Exited"
    /\ started = <<"Extracting", "Transforming">>
    /\ completed = <<"Extracting">>

\* C7: with no location extracted no later stage runs, and when run_loading
\* finds no staged file the Reporting stage never runs.
C7_HaltsWithoutInput ==
    /\ extPc = "returned" /\ saved_files = <<>> => Len(started) <= 1
    /\ mainPc = "Exited" /\ saved_files = <<>> => started = <<"Extracting">>
    /\ "Loading" \in Range(started) /\ ~staged.exists =>
         "Reporting" \notin Range(started)

\* No insert attempt of this load has succeeded.
NoInsertSucceeded ==
    /\ \A j \in 1..Len(batchLog) : ~batchLog[j].ok
    /\ callLog.op = "insert" => "ok" \notin Range(callLog.outcomes)

\* C9: when every insert attempt fails, run_loading ends with succeeded = 0
\* and failed = N, the run does not exit in the Loading stage, and main goes
\* on to Reporting when run_loading has returned.
C9_SinkAlwaysFails ==
    /\ [](("Loading" \in Range(started) /\ staged.exists /\ NoInsertSucceeded) =>
            /\ success_count = 0
            /\ table = <<>>
            /\ LoopDone => fail_count = Len(records)
            /\ mainPc = "Exited" => "Reporting" \in Range(started))
    /\ [][mainPc = "Loading" /\ loadPc = "returned" => mainPc' = "Reporting"]_vars

C9_Witness ==
    /\ mainPc = "Reporting"
    /\ Len(records) >= 3
    /\ NoInsertSucceeded
    /\ fail_count = Len(records)

\* The paths of the calls that returned one, in call order.
RECURSIVE PathsOf(_)
PathsOf(rets) ==
    IF rets = <<>> THEN <<>>
    ELSE (IF Head(rets).ok THEN <<Head(rets).path>> ELSE <<>>) \o PathsOf(Tail(rets))

\* C10: run_extraction calls fetch_city_data once per configured city, in
\* configuration order, whatever the other cities' outcomes; its list holds
\* the path of each call that succeeded and nothing for one that failed, so
\* succeeded <= attempted = number of configured cities.
C10_EveryCityOnce ==
    /\ IsPrefix(attempted, CITIES)
    /\ \A k \in 1..Len(fetchReturns) : fetchReturns[k].city = CITIES[k]
    /\ Len(attempted) - Len(fetchReturns) \in {0, 1}
    /\ saved_files = PathsOf(fetchReturns)
    /\ \A k \in 1..Len(saved_files) : \E f \in rawStore : f.name = saved_files[k]
    /\ extPc \in {"summary", "returned"} =>
         /\ attempted = CITIES
         /\ Len(fetchReturns) = Len(CITIES)
         /\ Len(saved_files) <= Len(attempted)

C10_Witness ==
    /\ extPc = "returned"
    /\ Len(saved_files) = 2
    /\ ~fetchReturns[1].ok
    /\ fetchReturns[2].ok
    /\ ~fetchReturns[3].ok

(***************************************************************************)
(* Properties of the Transformer.                                          *)
(***************************************************************************)
CorePollutants ==
    {"pm2_5", "pm10", "nitrogen_dioxide", "sulphur_dioxide", "carbon_monoxide",
     "ozone"}

Absent(v) == v = None \/ v = NaN

\* The value a raw entry holds for a series, null when it lacks the series.
Val(row, c) == IF c \in DOMAIN row THEN row[c] ELSE None

Tabular(f) == f.payload.has_hourly /\ f.payload.aligned

\* The entries of the raw files that hold an hourly table.
RawReadings ==
    UNION {{[city |-> f.name.city, row |-> f.payload.rows[k]] :
               k \in 1..Len(f.payload.rows)} : f \in {g \in rawStore : Tabular(g)}}

ConfiguredName(lower) == CHOOSE c \in Range(CITIES) : lower_name(c) = lower

SameValue(out, in) == IF Absent(in) THEN out = NaN ELSE out = in

\* The staged file holds a row for the raw entry rd.
Appears(rd) ==
    \E j \in 1..Len(staged.rows) :
        /\ staged.rows[j].city = ConfiguredName(rd.city)
        /\ SameValue(staged.rows[j].time, Val(rd.row, "time"))
        /\ \A p \in Range(POLLUTANTS) : SameValue(staged.rows[j][p], Val(rd.row, p))

\* The last run of transform.py wrote the staged file.
TransformWrote == callLog.op = "transform" /\ callLog.result = "written"

SomePresent(rd, cols) == \E p \in cols : ~Absent(Val(rd.row, p))

\* C11 as stated: after a run that wrote the staged file, an entry with the
\* six core pollutants all absent is not in it, and an entry with one of
\* them present is.
C11_DropsOnCoreSix ==
    TransformWrote =>
        \A rd \in RawReadings : Appears(rd) <=> SomePresent(rd, CorePollutants)

\* C11: after a run that wrote the staged file, an entry is in it exactly
\* when one of the seven series of the pollutants list, the UV index
\* included, is present; an entry with only a UV index is retained.
C11_DropsOnAllSeven ==
    TransformWrote =>
        \A rd \in RawReadings : Appears(rd) <=> SomePresent(rd, Range(POLLUTANTS))

C11_Witness ==
    /\ TransformWrote
    /\ \E rd \in RawReadings : ~SomePresent(rd, Range(POLLUTANTS))
    /\ \E rd \in RawReadings :
          ~SomePresent(rd, CorePollutants) /\ SomePresent(rd, {"uv_index"})

\* A payload is well-formed when its hourly object holds every expected
\* series, all of one length.
WellFormed(f) == Tabular(f) /\ AllCols \subseteq f.payload.cols

ReadingsOf(files) ==
    UNION {{[city |-> f.name.city, row |-> f.payload.rows[k]] :
               k \in 1..Len(f.payload.rows)} : f \in files}

\* The staged row s is the row of the raw entry rd.
RowOf(s, rd) ==
    /\ s.city = ConfiguredName(rd.city)
    /\ SameValue(s.time, Val(rd.row, "time"))
    /\ \A p \in Range(POLLUTANTS) : SameValue(s[p], Val(rd.row, p))

\* C12 as stated: a run over a raw store with a malformed payload does not
\* raise; with a well-formed payload beside it the staged file is written,
\* every row of it is an entry of a well-formed payload, and every entry of
\* a well-formed payload with a value present has its row.
C12_MalformedSkipped ==
    callLog.op = "transform" =>
        LET good == {f \in rawStore : WellFormed(f)}
        IN /\ callLog.result # "raised"
           /\ good # {} =>
                /\ callLog.result = "written"
                /\ \A j \in 1..Len(staged.rows) :
                      \E rd \in ReadingsOf(good) : RowOf(staged.rows[j], rd)
                /\ \A rd \in ReadingsOf(good) :
                      SomePresent(rd, Range(POLLUTANTS)) => Appears(rd)

StagedRows == {staged.rows[j] : j \in 1..Len(staged.rows)}

\* C13: every row a run staged carries exactly the risk label of its
\* severity score: High Risk iff the score is above 400, Moderate Risk iff
\* it is above 200 and at most 400, Low Risk iff it is at most 200, Unknown
\* iff the score is absent.
C13_RiskBands ==
    TransformWrote =>
        \A r \in StagedRows :
            LET s == r.severity_score
                l == r.risk_label
            IN /\ l \in {"High Risk", "Moderate Risk", "Low Risk", "Unknown"}
               /\ l = "Unknown" <=> s = NaN
               /\ l = "High Risk" <=> (s # NaN /\ s > 400)
               /\ l = "Moderate Risk" <=> (s # NaN /\ s > 200 /\ s <= 400)
               /\ l = "Low Risk" <=> (s # NaN /\ s <= 200)

C13_Witness ==
    /\ TransformWrote
    /\ \E r \in StagedRows : r.severity_score = 400 /\ r.risk_label = "Moderate Risk"
    /\ \E r \in StagedRows : r.severity_score = 401 /\ r.risk_label = "High Risk"

AqiRank(cat) ==
    CASE cat = "Good" -> 1
      [] cat = "Moderate" -> 2
      [] cat = "Unhealthy" -> 3
      [] cat = "Very Unhealthy" -> 4
      [] cat = "Hazardous" -> 5
      [] OTHER -> 0

\* C14: every row a run staged carries the AQI band of its pm2.5 value:
\* Unknown iff absent, else Good up to 50, Moderate up to 100, Unhealthy up
\* to 200, Very Unhealthy up to 300, Hazardous above; and of two rows with a
\* pm2.5 value the one with the larger value never has the lower band.
C14_AqiBands ==
    TransformWrote =>
        /\ \A r \in StagedRows :
              LET v == r.pm2_5
                  c == r.aqi_category
              IN /\ c = "Unknown" <=> v = NaN
                 /\ c = "Good" <=> (v # NaN /\ v <= 50)
                 /\ c = "Moderate" <=> (v # NaN /\ v > 50 /\ v <= 100)
                 /\ c = "Unhealthy" <=> (v # NaN /\ v > 100 /\ v <= 200)
                 /\ c = "Very Unhealthy" <=> (v # NaN /\ v > 200 /\ v <= 300)
                 /\ c = "Hazardous" <=> (v # NaN /\ v > 300)
        /\ \A r, q \in StagedRows :
              (r.pm2_5 # NaN /\ q.pm2_5 # NaN /\ r.pm2_5 <= q.pm2_5)
                  => AqiRank(r.aqi_category) <= AqiRank(q.aqi_category)

C14_Witness ==
    /\ TransformWrote
    /\ \E r \in StagedRows : r.pm2_5 = 300 /\ r.aqi_category = "Very Unhealthy"
    /\ \E r \in StagedRows : r.pm2_5 = 301 /\ r.aqi_category = "Hazardous"
    /\ \E r \in StagedRows : r.pm2_5 = 30 /\ r.aqi_category = "Good"

\* C15: every row a run staged has severity_score 5*pm2.5 + 3*pm10 + 4*NO2
\* + 4*SO2 + 2*CO + 3*O3 when the six are present, and an absent score and
\* the risk label Unknown when one of the six is absent.
C15_SeverityOrAbsent ==
    TransformWrote =>
        \A r \in StagedRows :
            IF \A p \in CorePollutants : r[p] # NaN
            THEN r.severity_score =
                     5 * r.pm2_5 + 3 * r.pm10 + 4 * r.nitrogen_dioxide
                     + 4 * r.sulphur_dioxide + 2 * r.carbon_monoxide + 3 * r.ozone
            ELSE r.severity_score = NaN /\ r.risk_label = "Unknown"

C15_Witness ==
    /\ TransformWrote
    /\ \E r \in StagedRows :
          /\ r.ozone = NaN
          /\ \A p \in CorePollutants \ {"ozone"} : r[p] # NaN
    /\ \E r \in StagedRows : r.severity_score = 630

\* A run of transform.py that follows an earlier run over the same raw store.
RepeatedRun == Len(started) >= 1 /\ Len(started') = Len(started) + 1

\* C18: a run of the Transformer that follows another over the same raw
\* store ends as the first did and leaves the staged file exactly as the
\* first left it, rows and order; and a staged file a run wrote holds only
\* rows of raw entries, whatever the staged file held before.
C18_Idempotent ==
    /\ [][RepeatedRun => (staged' = staged /\ callLog'.result = callLog.result
                           /\ exitStatus' = exitStatus)]_vars
    /\ [](TransformWrote =>
            \A s \in StagedRows : \E rd \in RawReadings : RowOf(s, rd))

C18_Witness ==
    /\ Len(started) = 2
    /\ TransformWrote
    /\ Len(staged.rows) = 2
    /\ Cardinality(rawStore) = 2

(***************************************************************************)
(* Properties of the stores.                                               *)
(***************************************************************************)
\* C17: no step of the pipeline taken once extraction is over (the
\* Transformer writing, returning early or raising, the Batch Loader, the
\* report) removes, adds or changes a raw file.
C17_RawStoreDurable ==
    [][(mainPc \in {"Transforming", "Loading", "Reporting"})
          => (rawStore' = rawStore)]_vars

C17_Witness ==
    /\ mainPc = "Finished"
    /\ table # <<>>
    /\ \E f \in rawStore : ~f.payload.has_hourly
    /\ \E f \in rawStore : WellFormed(f)

\* The fetches of this run that saved a file.
SavedFetches == {k \in 1..Len(fetchReturns) : fetchReturns[k].ok}

\* The frame process_city_file makes of the file a fetch saved.
FrameOf(k) ==
    process_city_file(CHOOSE f \in rawStore : f.name = fetchReturns[k].path)

\* The file of the fetch k is named as the string operations of the code
\* make it, the label they decode from the name is the configured name, and
\* process_city_file puts that label on every row of the file's frame.
NamedAsCoded(k) ==
    LET city == fetchReturns[k].city
        path == fetchReturns[k].path
        fname == filename_chars(Chars(city), path.ts)
        df == FrameOf(k)
    IN /\ Chars(path.city) = split_head(fname, <<"_", "r", "a", "w", "_">>)
       /\ label_chars(fname) = Chars(city)
       /\ \A j \in 1..Len(df.rows) :
             df.rows[j].city = city /\ Chars(df.rows[j].city) = label_chars(fname)

\* The label of the file of fetch k differs from that of every earlier file.
LabelIsNew(k) ==
    \A m \in 1..(k - 1) :
        (fetchReturns[m].ok /\ FrameOf(m).rows # <<>> /\ FrameOf(k).rows # <<>>)
            => FrameOf(m).rows[1].city # FrameOf(k).rows[1].city

\* C19: when a fetch has saved its file, the label the Transformer decodes
\* from the file's name is the configured name of the city fetched, and no
\* file of another city carries it; every row staged carries the configured
\* name of a city fetched.
C19_LabelIsConfiguredName ==
    /\ (extPc \in {"fetching", "summary"} /\ fetchReturns # <<>>
          /\ fetchReturns[Len(fetchReturns)].ok)
          => (NamedAsCoded(Len(fetchReturns)) /\ LabelIsNew(Len(fetchReturns)))
    /\ (staged.exists /\ "Transforming" \in Range(completed)) =>
          \A r \in StagedRows : \E k \in SavedFetches : r.city = fetchReturns[k].city

C19_Witness ==
    /\ mainPc = "Finished"
    /\ Cardinality(SavedFetches) = Len(CITIES)
    /\ {r.city : r \in StagedRows} = Range(CITIES)

(***************************************************************************)
(* Properties of the retried calls.                                        *)
(***************************************************************************)
CountOk(outcomes) == Cardinality({k \in 1..Len(outcomes) : outcomes[k] = "ok"})

\* The logged batches whose insert_batch returned True.
RECURSIVE AcceptedOf(_)
AcceptedOf(log) ==
    IF log = <<>> THEN <<>>
    ELSE (IF Head(log).ok THEN <<Head(log)>> ELSE <<>>) \o AcceptedOf(Tail(log))

\* C20: in a retried call (a city's fetch or a batch's insert) a success is
\* the last invocation: the call returns with it and the operation is not
\* invoked again, so a call that returned success had exactly one successful
\* attempt and a failed call none.  The sink holds the rows of each batch
\* counted as succeeded once, and nothing else; the raw store holds one file
\* for each city whose fetch succeeded in the run and none for the others.
C20_NoRepeatAfterSuccess ==
    /\ callLog.op \in {"fetch", "insert"} =>
          /\ \A k \in 1..(Len(callLog.outcomes) - 1) : callLog.outcomes[k] # "ok"
          /\ callLog.result = "pending" => CountOk(callLog.outcomes) = 0
          /\ callLog.result = "ok" => CountOk(callLog.outcomes) = 1
          /\ callLog.result = "failed" => CountOk(callLog.outcomes) = 0
    /\ table = FlattenRows(AcceptedOf(batchLog))
    /\ success_count = Len(table)
    /\ \A k \in 1..Len(fetchReturns) :
          Cardinality({f \in rawStore : f.name.city = lower_name(fetchReturns[k].city)})
              = IF fetchReturns[k].ok THEN 1 ELSE 0
    /\ Cardinality(rawStore) = Len(saved_files)

C20_Witness ==
    /\ loadPc = "summary"
    /\ Len(batchLog) >= 2
    /\ callLog.op = "insert" /\ callLog.result = "ok"
    /\ Len(callLog.outcomes) = LOAD_MAX_RETRIES + 1
    /\ Len(table) = Len(records)
    /\ Cardinality(rawStore) >= 2

\* C16 as stated: the fetches of a later run add their files beside the
\* files of earlier runs, none of which is overwritten: the raw store still
\* holds a file that this run did not write.
C16_EarlierArtifactKept ==
    \E f \in rawStore : \A k \in 1..Len(saved_files) : saved_files[k] # f.name

(***************************************************************************)
(* Termination.                                                            *)
(***************************************************************************)
Final == mainPc \in {"Finished", "Exited"}

\* Fetch invocations the run may still make: 3 for each city not yet done,
\* less those made for the current city.
FetchBudget ==
    IF extPc = "fetching"
    THEN 3 * (Len(CITIES) - cityIdx + 1) - (attempt - 1)
    ELSE IF extPc = "idle" THEN 3 * Len(CITIES) ELSE 0

\* Insert invocations the load may still make: 3 for each batch not yet
\* done, less those made for the current batch.
InsertBudget ==
    IF loadPc = "inserting"
    THEN 3 * CeilDiv(Len(records) - i, BATCH_SIZE) - insAttempt
    ELSE 0

\* The position of the run: the step of main, and within steps 1 and 3 the
\* position of the stage function.
Phase ==
    CASE mainPc = "Start" -> 0
      [] mainPc = "Extracting" /\ extPc = "fetching" -> 1
      [] mainPc = "Extracting" /\ extPc = "summary" -> 2
      [] mainPc = "Extracting" /\ extPc = "returned" -> 3
      [] mainPc = "Transforming" -> 4
      [] mainPc = "Loading" /\ loadPc = "idle" -> 5
      [] mainPc = "Loading" /\ loadPc = "inserting" -> 6
      [] mainPc = "Loading" /\ loadPc = "summary" -> 7
      [] mainPc = "Loading" /\ loadPc = "returned" -> 8
      [] mainPc = "Reporting" -> 9
      [] OTHER -> 10

\* The step the run is at can be taken.  Step 2 is one call on which main
\* waits: it can be taken whatever run_transformation does of the three.
CanStep ==
    CASE Phase = 0 -> ENABLED MainExtract
      [] Phase = 1 -> ENABLED FetchAttempt
      [] Phase = 2 -> ENABLED ExtractSummary
      [] Phase = 3 -> ENABLED MainAfterExtract
      [] Phase = 4 -> run_transformation(rawStore).status
                          \in {"returned", "raised", "written"}
      [] Phase = 5 -> ENABLED MainLoad
      [] Phase = 6 -> ENABLED InsertAttempt
      [] Phase = 7 -> ENABLED LoadSummary
      [] Phase = 8 -> ENABLED MainAfterLoad
      [] Phase = 9 -> ENABLED MainReport
      [] OTHER -> Final

\* C21: a run of the pipeline is never stuck before its final state (the
\* banner or a non-zero exit), and every step moves it to a later position
\* or, within the fetch loop and the insert loop, uses up the budget of
\* invocations: every fetch invocation takes one from a budget that starts
\* at 3 times the number of configured cities and every insert invocation
\* one from a budget that starts at 3 * ceil(N/B), and neither budget goes
\* below zero.  So the run ends after a bounded number of steps with at most
\* that many invocations, whatever the remote calls return.
C21_BoundedTermination ==
    /\ [](/\ FetchBudget >= 0 /\ InsertBudget >= 0
          /\ (extPc = "fetching" /\ cityIdx = 1 /\ attempt = 1)
                => FetchBudget = 3 * Len(CITIES)
          /\ (loadPc = "inserting" /\ i = 0 /\ insAttempt = 0)
                => InsertBudget = 3 * CeilDiv(Len(staged.rows), BATCH_SIZE)
          /\ CanStep)
    /\ [][/\ Phase' >= Phase
          /\ (extPc = "fetching") => (FetchBudget' <= FetchBudget - 1)
          /\ (loadPc = "inserting") => (InsertBudget' <= InsertBudget - 1)
          /\ (extPc # "fetching" /\ loadPc # "inserting") => (Phase' > Phase)
          /\ (extPc # "fetching") => (rawStore' = rawStore)
          /\ (loadPc # "inserting") => (table' = table)]_vars

C21_Witness ==
    /\ mainPc = "Finished"
    /\ \E k \in 1..Len(fetchReturns) : ~fetchReturns[k].ok
    /\ Len(records) >= 3
    /\ fail_count = Len(records)

=============================================================================
